---- MODULE Spec2Model ----
(***************************************************************************)
(* State-machine model of src/server.js: the Express REST backend for      *)
(* clientes / pagamentos with signup, JWT login / logout and the auth      *)
(* guard authenticateToken.  The source holds two near-identical server    *)
(* files (lines 1-324 and 325-555); serverFile says which one the process  *)
(* runs.  Every await of a handler is a yield point: a request that is     *)
(* waiting for the store sits in inflight and is resumed by its own step.  *)
(* A store call may reject (threw); the handler's catch then answers.      *)
(*                                                                         *)
(* Four specifications share the actions: Spec (sessions: login, logout,   *)
(* the clock, the guard before every protected route), SpecResources (the  *)
(* protected routes with every payload and header form), SpecAccounts (the *)
(* public routes from an empty store under every configuration) and       *)
(* SpecQuery (the payments query builder on every filter combination).     *)
(***************************************************************************)
EXTENDS Integers, Sequences, FiniteSets, TLC

(* ------------------------------ bounds --------------------------------- *)
\* Clock values are 0..MaxTime (one unit = one expiry period of a token).
MaxTime == 1
\* Requests that may be suspended on an await at the same time.
MaxInflight == 2
\* Those among them that are not signups.
MaxOther == 1
\* Tokens the logins of one run may return.
MaxTokens == 2

(* ------------------------- program constants --------------------------- *)
\* expiresIn: process.env.JWT_EXPIRES_IN || '1h', in clock units.
ExpiresIn == 1

(* ------------------------------ inputs --------------------------------- *)
Usernames == {"ana", "bia"}
Passwords == {"p1", "p2"}
\* Request-body strings; a missing field is falsy like the empty string.
UsernameInputs == Usernames \cup {""}
PasswordInputs == Passwords \cup {""}
\* The whatsapp numbers a POST /clientes may carry.
Whatsapps == {5511}
\* :id and cliente_id values: an id the table can come to hold and one it
\* cannot.
IdInputs == {1, 2}
\* The data_vencimento a POST /pagamentos may carry, as its year and month;
\* a run bills each once.
Vencimentos == {[year |-> "2024", month |-> "5"]}
\* req.query.x of a parameter the URL does not carry (undefined).
Absent == "<undefined>"
\* A query-string filter is absent, or carries a value.
StatusInputs == {Absent, "pago"}
YearInputs == {Absent, "2024"}
MonthInputs == {Absent, "5"}
\* The values the query builder is tried on: absent, empty (?status=), set.
StatusValues == {Absent, "", "pago", "pendente"}
YearValues == {Absent, "", "2024"}
MonthValues == {Absent, "", "5"}

NoSecret == ""
Secrets == {NoSecret, "s3cr3t"}
Environments == {"development", "production"}

(* ------------------------- tokens and headers -------------------------- *)
\* A JWT is the signed payload {userId, iat, exp}; sig names the key it
\* was signed with.
NoJwt == [userId |-> 0, iat |-> 0, exp |-> 0, sig |-> ""]
\* One space-separated part of a header value: a plain string, or a JWT
\* in its compact serialisation.
Word(s) == [str |-> s, jwt |-> NoJwt]
TokWord(j) == [str |-> "jwt", jwt |-> j]
\* JavaScript's undefined (x?.split(' ')[1] on a missing header or part).
Undefined == Word("undefined")
\* A token an attacker made without the signing key.
ForgedJwt == [userId |-> 1, iat |-> 0, exp |-> MaxTime + 2, sig |-> "forged"]

\* JavaScript truthiness of a string / undefined value.
Falsy(w) == w = Undefined \/ w = Word("")
FalsyStr(s) == s = Absent \/ s = ""

\* req.headers['authorization']?.split(' ')[1]; a header is the sequence
\* of its space-separated parts, <<>> when the header is missing.
ExtractToken(h) == IF Len(h) >= 2 THEN h[2] ELSE Undefined

\* jsonwebtoken sign: throws when the key is missing.
SignThrowsNever(secret) == FALSE
SignThrows(secret) == secret = NoSecret
JwtSign(userId, secret, t) ==
    [userId |-> userId, iat |-> t, exp |-> t + ExpiresIn, sig |-> secret]

\* jsonwebtoken verify: err when the key is missing, the token is
\* malformed, the signature does not match or clockTimestamp >= exp.
JwtVerifyErrNoExpiry(w, secret, t) ==
    \/ secret = NoSecret
    \/ w.str # "jwt"
    \/ w.jwt.sig # secret
JwtVerifyErr(w, secret, t) ==
    \/ secret = NoSecret
    \/ w.str # "jwt"
    \/ w.jwt.sig # secret
    \/ t >= w.jwt.exp

\* bcrypt.hash(password, 10) and bcrypt.compare(password, hash).  The
\* random salt is left out: no step reads it.
BcryptHash(p) == [alg |-> "2a", cost |-> 10, of |-> p]
BcryptCompareAlways(p, h) == TRUE
BcryptCompare(p, h) == h = BcryptHash(p)

(* ------------------------------- state --------------------------------- *)
VARIABLES
    serverFile,     \* 1: lines 1-324, 2: lines 325-555
    env,            \* process.env: JWT_SECRET, NODE_ENV
    proc,           \* "checking" (startup SELECT 1 pending), "running", "exited"
    now,            \* the clock
    revokedTokens,  \* the module-level Set of revoked token strings
    usuarios,       \* table usuarios: rows [id, username, password_hash]
    clientes,       \* table clientes: rows [id, whatsapp]
    pagamentos,     \* table pagamentos: rows [id, cliente_id, status, year, month]
    inflight,       \* requests suspended on an await
    last,           \* the event of the latest step: a guard pass or a response
    issued,         \* history: [jwt, uid] of every token a login returned
    loggedOut       \* history: the token strings POST /logout answered 200 for

vars == <<serverFile, env, proc, now, revokedTokens, usuarios, clientes,
          pagamentos, inflight, last, issued, loggedOut>>

R_ROOT == "GET /"
R_SIGNUP == "POST /signup"
R_LOGIN == "POST /login"
R_LOGOUT == "POST /logout"
R_CLIENTES == "GET /clientes"
R_CLIENTE == "GET /clientes/:id"
R_NOVO_CLIENTE == "POST /clientes"
R_PAGAMENTOS == "GET /clientes/:id/pagamentos"
R_NOVO_PAGAMENTO == "POST /pagamentos"

ProtectedRoutes ==
    {R_LOGOUT, R_CLIENTES, R_CLIENTE, R_NOVO_CLIENTE, R_PAGAMENTOS, R_NOVO_PAGAMENTO}

\* An event.  kind "next": the guard called next() and the handler started;
\* kind "response": res.status(status).json(...) was sent.  The fields after
\* details record the request and what the handler met on its way.
NoEvent ==
    [kind |-> "none", route |-> "", header |-> <<>>, status |-> 0,
     user |-> 0, token |-> Undefined, details |-> FALSE,
     username |-> "", password |-> "", id |-> 0,
     fstatus |-> "", year |-> "", month |-> "",
     handlerRan |-> FALSE,    \* the route handler's body started
     wasRevoked |-> FALSE,    \* a logout had succeeded for the carried token
     storeThrew |-> FALSE,    \* a store call rejected with a non-constraint error
     collided |-> FALSE,      \* the request hit a uniqueness constraint
     absentAtCheck |-> FALSE, \* signup: the existence check found no row
     reachedIssue |-> FALSE,  \* login: the credentials verified
     existed |-> FALSE,       \* pagamentos: the existence check found the customer
     listed |-> FALSE,        \* pagamentos: the filtered query was executed
     rows |-> 0,              \* rows in a 200 list
     guarded |-> FALSE,       \* the event of the guard's own turn
     query |-> [text |-> <<>>, params |-> <<>>]]
                              \* pagamentos: what pool.query was handed

\* A suspended request: what the handler keeps in its closure.
NoEntry ==
    [route |-> "", pc |-> "", user |-> 0, username |-> "", password |-> "",
     id |-> 0, whatsapp |-> 0, fstatus |-> "", year |-> "", month |-> ""]

\* A turn of the event loop starts only after the previous one's event went
\* out (EndTurn); the process serves until it exits.
Serving == proc # "exited" /\ last = NoEvent
CanSuspend(r) ==
    /\ Cardinality(inflight) < MaxInflight
    /\ r # "POST /signup" =>
         Cardinality({e \in inflight : e.route # "POST /signup"}) < MaxOther

(* ----------------------------- auth guard ------------------------------ *)
\* authenticateToken: status 0 means next() was called with req.user set.
authenticateTokenNoRevocation(h) ==
    LET token == ExtractToken(h) IN
    IF Falsy(token) THEN [status |-> 401, user |-> 0]
    ELSE IF JwtVerifyErr(token, env.JWT_SECRET, now) THEN [status |-> 403, user |-> 0]
    ELSE [status |-> 0, user |-> token.jwt.userId]
authenticateToken(h) ==
    LET token == ExtractToken(h) IN
    IF Falsy(token) THEN [status |-> 401, user |-> 0]
    ELSE IF token \in revokedTokens THEN [status |-> 403, user |-> 0]
    ELSE IF JwtVerifyErr(token, env.JWT_SECRET, now) THEN [status |-> 403, user |-> 0]
    ELSE [status |-> 0, user |-> token.jwt.userId]

\* Token strings a client can hold: the ones logins returned, and a forgery.
Presentable == {TokWord(e.jwt) : e \in issued} \cup {TokWord(ForgedJwt)}
\* Authorization header values: missing, a bare token, a scheme alone, a
\* scheme and an empty token, Bearer <token>, Basic <token>.
Headers ==
    {<<>>, <<Word("Bearer")>>, <<Word("Bearer"), Word("")>>}
    \cup {<<t>> : t \in Presentable}
    \cup {<<Word("Bearer"), t>> : t \in Presentable}
    \cup {<<Word("Basic"), TokWord(e.jwt)>> : e \in issued}

\* The well-formed ones among them, and the missing header.
BearerHeaders == {<<>>} \cup {<<Word("Bearer"), t>> : t \in Presentable}

\* The guard's part of an event for a request with header h on route r.
GuardEvent(r, h) ==
    LET g == authenticateToken(h) IN
    [NoEvent EXCEPT !.kind = IF g.status = 0 THEN "next" ELSE "response",
                    !.route = r, !.header = h, !.status = g.status,
                    !.user = g.user, !.handlerRan = (g.status = 0),
                    !.guarded = TRUE,
                    !.wasRevoked = (Len(h) = 2 /\ h[2] \in loggedOut)]

(* ------------------------------ startup -------------------------------- *)
\* The turn is over: its event, if any, has gone out.
EndTurn ==
    /\ last # NoEvent
    /\ last' = NoEvent
    /\ UNCHANGED <<serverFile, env, proc, now, revokedTokens, usuarios, clientes,
                   pagamentos, inflight, issued, loggedOut>>

\* pool.query('SELECT 1').then(log)
StartupOk ==
    /\ proc = "checking" /\ last = NoEvent
    /\ proc' = "running"
    /\ last' = NoEvent
    /\ UNCHANGED <<serverFile, env, now, revokedTokens, usuarios, clientes,
                   pagamentos, inflight, issued, loggedOut>>

\* pool.query('SELECT 1').catch(err => process.exit(1))
StartupFail ==
    /\ proc = "checking" /\ last = NoEvent
    /\ proc' = "exited"
    /\ inflight' = {}
    /\ last' = NoEvent
    /\ UNCHANGED <<serverFile, env, now, revokedTokens, usuarios, clientes,
                   pagamentos, issued, loggedOut>>

\* Time passes.
Tick ==
    /\ now < MaxTime /\ last = NoEvent
    /\ now' = now + 1
    /\ last' = NoEvent
    /\ UNCHANGED <<serverFile, env, proc, revokedTokens, usuarios, clientes,
                   pagamentos, inflight, issued, loggedOut>>

\* What a catch puts in details.  GET /: err.message.
DetailsEcho(threw) == threw
\* The protected GET routes: err.message in development, undefined otherwise.
DetailsInDev(threw) == threw /\ env.NODE_ENV = "development"

(* ------------------------------- GET / --------------------------------- *)
\* The handler's only await is its one query; its catch echoes err.message
\* whatever NODE_ENV is.
GetRoot ==
    /\ Serving
    /\ \E threw \in BOOLEAN :
         last' = [NoEvent EXCEPT !.kind = "response", !.route = R_ROOT,
                                 !.handlerRan = TRUE,
                                 !.status = IF threw THEN 500 ELSE 200,
                                 !.storeThrew = threw,
                                 !.details = DetailsEcho(threw)]
    /\ UNCHANGED <<serverFile, env, proc, now, revokedTokens, usuarios,
                   clientes, pagamentos, inflight, issued, loggedOut>>

(* ---------------------------- POST /signup ----------------------------- *)
\* 'SELECT 1 FROM usuarios WHERE username = $1' rowCount
UsuarioRowCount(u) == Cardinality({r \in usuarios : r.username = u})
\* usuarios.username is unique: the INSERT rejects with code 23505.
UsuarioInsertCollides(u) == \E r \in usuarios : r.username = u
\* RETURNING id
NextUsuarioId == Cardinality(usuarios) + 1

\* The handler up to its first await.
SignupArrive(u, p) ==
    /\ Serving /\ CanSuspend(R_SIGNUP)
    /\ inflight' = inflight \cup
         {[NoEntry EXCEPT !.route = R_SIGNUP, !.pc = "check",
                          !.username = u, !.password = p]}
    /\ last' = NoEvent
    /\ UNCHANGED <<serverFile, env, proc, now, revokedTokens, usuarios,
                   clientes, pagamentos, issued, loggedOut>>

\* The existence check returned (or rejected).
SignupCheck(e) ==
    /\ Serving
    /\ e \in inflight /\ e.route = R_SIGNUP /\ e.pc = "check"
    /\ LET ev == [NoEvent EXCEPT !.kind = "response", !.route = R_SIGNUP,
                                 !.handlerRan = TRUE,
                                 !.username = e.username, !.password = e.password]
       IN \E threw \in BOOLEAN :
            IF threw
            THEN /\ last' = [ev EXCEPT !.status = 500, !.storeThrew = TRUE]
                 /\ inflight' = inflight \ {e}
            ELSE IF UsuarioRowCount(e.username) > 0
            THEN /\ last' = [ev EXCEPT !.status = 400, !.collided = TRUE]
                 /\ inflight' = inflight \ {e}
            ELSE /\ inflight' = (inflight \ {e}) \cup {[e EXCEPT !.pc = "insert"]}
                 /\ last' = NoEvent
    /\ UNCHANGED <<serverFile, env, proc, now, revokedTokens, usuarios,
                   clientes, pagamentos, issued, loggedOut>>

\* bcrypt.hash resolved and the INSERT returned (or rejected); every
\* rejection lands in the one catch: 500.
SignupInsert(e) ==
    /\ Serving
    /\ e \in inflight /\ e.route = R_SIGNUP /\ e.pc = "insert"
    /\ inflight' = inflight \ {e}
    /\ LET ev == [NoEvent EXCEPT !.kind = "response", !.route = R_SIGNUP,
                                 !.handlerRan = TRUE, !.absentAtCheck = TRUE,
                                 !.username = e.username, !.password = e.password]
       IN \E threw \in BOOLEAN :
            IF threw
            THEN /\ last' = [ev EXCEPT !.status = 500, !.storeThrew = TRUE]
                 /\ UNCHANGED usuarios
            ELSE IF UsuarioInsertCollides(e.username)
            THEN /\ last' = [ev EXCEPT !.status = 500, !.collided = TRUE]
                 /\ UNCHANGED usuarios
            ELSE /\ usuarios' = usuarios \cup
                      {[id |-> NextUsuarioId, username |-> e.username,
                        password_hash |-> BcryptHash(e.password)]}
                 /\ last' = [ev EXCEPT !.status = 201, !.user = NextUsuarioId]
    /\ UNCHANGED <<serverFile, env, proc, now, revokedTokens, clientes,
                   pagamentos, issued, loggedOut>>

(* ----------------------------- POST /login ----------------------------- *)
\* if (!username || !password) return 400: first server file only.
LoginMissingFields(u, p) == serverFile = 1 /\ (FalsyStr(u) \/ FalsyStr(p))
\* if (!process.env.JWT_SECRET) return 500: first server file only.
LoginSecretMissing == serverFile = 1 /\ FalsyStr(env.JWT_SECRET)

LoginArrive(u, p) ==
    /\ Serving
    /\ Cardinality(issued) < MaxTokens
    /\ IF LoginMissingFields(u, p)
       THEN /\ last' = [NoEvent EXCEPT !.kind = "response", !.route = R_LOGIN,
                                       !.handlerRan = TRUE, !.status = 400,
                                       !.username = u, !.password = p]
            /\ UNCHANGED inflight
       ELSE /\ CanSuspend(R_LOGIN)
            /\ inflight' = inflight \cup
                 {[NoEntry EXCEPT !.route = R_LOGIN, !.pc = "lookup",
                                  !.username = u, !.password = p]}
            /\ last' = NoEvent
    /\ UNCHANGED <<serverFile, env, proc, now, revokedTokens, usuarios,
                   clientes, pagamentos, issued, loggedOut>>

\* The user lookup returned, bcrypt.compare resolved, the token is signed.
\* rows[0] is the one row of the username.
LoginResume(e) ==
    /\ Serving
    /\ e \in inflight /\ e.route = R_LOGIN /\ e.pc = "lookup"
    /\ inflight' = inflight \ {e}
    /\ LET ev == [NoEvent EXCEPT !.kind = "response", !.route = R_LOGIN,
                                 !.handlerRan = TRUE,
                                 !.username = e.username, !.password = e.password]
           rows == {r \in usuarios : r.username = e.username}
       IN \E threw \in BOOLEAN :
            IF threw
            THEN /\ last' = [ev EXCEPT !.status = 500, !.storeThrew = TRUE]
                 /\ UNCHANGED issued
            ELSE IF rows = {}
            THEN /\ last' = [ev EXCEPT !.status = 401]
                 /\ UNCHANGED issued
            ELSE \E user \in rows :
                 IF ~BcryptCompare(e.password, user.password_hash)
                 THEN /\ last' = [ev EXCEPT !.status = 401]
                      /\ UNCHANGED issued
                 ELSE IF LoginSecretMissing
                 THEN /\ last' = [ev EXCEPT !.status = 500, !.reachedIssue = TRUE]
                      /\ UNCHANGED issued
                 ELSE IF SignThrows(env.JWT_SECRET)
                 THEN /\ last' = [ev EXCEPT !.status = 500, !.reachedIssue = TRUE]
                      /\ UNCHANGED issued
                 ELSE LET jwt == JwtSign(user.id, env.JWT_SECRET, now) IN
                      /\ last' = [ev EXCEPT !.status = 200, !.reachedIssue = TRUE,
                                            !.user = user.id,
                                            !.token = TokWord(jwt)]
                      /\ issued' = issued \cup {[jwt |-> jwt, uid |-> user.id]}
    /\ UNCHANGED <<serverFile, env, proc, now, revokedTokens, usuarios,
                   clientes, pagamentos, loggedOut>>

(* ---------------------------- POST /logout ----------------------------- *)
\* The guard and the handler run in one turn: no await between them.
Logout(h) ==
    /\ Serving
    /\ LET g == GuardEvent(R_LOGOUT, h) IN
       IF g.status # 0
       THEN /\ last' = g
            /\ UNCHANGED <<revokedTokens, loggedOut>>
       ELSE /\ revokedTokens' = revokedTokens \cup {ExtractToken(h)}
            /\ loggedOut' = loggedOut \cup {h[2]}
            /\ last' = [g EXCEPT !.kind = "response", !.status = 200]
    /\ UNCHANGED <<serverFile, env, proc, now, usuarios, clientes,
                   pagamentos, inflight, issued>>

(* ------------------------- protected routes ---------------------------- *)
\* A guarded route up to its handler's first await: the guard answers, or
\* calls next() and the handler suspends as entry.
GuardedArrive(r, h, entry) ==
    /\ Serving
    /\ LET g == GuardEvent(r, h) IN
       /\ last' = g
       /\ IF g.status # 0
          THEN UNCHANGED inflight
          ELSE /\ CanSuspend(r)
               /\ inflight' = inflight \cup {entry}
    /\ UNCHANGED <<serverFile, env, proc, now, revokedTokens, usuarios,
                   clientes, pagamentos, issued, loggedOut>>

\* 'SELECT * FROM clientes LIMIT 100'
RowLimit == 100
Min(a, b) == IF a < b THEN a ELSE b

\* GET /clientes
ClientesArrive(h) ==
    GuardedArrive(R_CLIENTES, h, [NoEntry EXCEPT !.route = R_CLIENTES, !.pc = "query"])

ClientesResume(e) ==
    /\ Serving
    /\ e \in inflight /\ e.route = R_CLIENTES
    /\ inflight' = inflight \ {e}
    /\ \E threw \in BOOLEAN :
         last' = [NoEvent EXCEPT !.kind = "response", !.route = R_CLIENTES,
                                 !.handlerRan = TRUE,
                                 !.status = IF threw THEN 500 ELSE 200,
                                 !.storeThrew = threw,
                                 !.details = DetailsInDev(threw),
                                 !.rows = IF threw THEN 0
                                          ELSE Min(Cardinality(clientes), RowLimit)]
    /\ UNCHANGED <<serverFile, env, proc, now, revokedTokens, usuarios,
                   clientes, pagamentos, issued, loggedOut>>

\* 'SELECT ... FROM clientes WHERE id = $1' rowCount
ClienteRowCountOne(id) == 1
ClienteRowCount(id) == Cardinality({c \in clientes : c.id = id})

\* GET /clientes/:id (first server file only)
ClienteArrive(h, id) ==
    /\ serverFile = 1
    /\ GuardedArrive(R_CLIENTE, h,
                     [NoEntry EXCEPT !.route = R_CLIENTE, !.pc = "query", !.id = id])

ClienteResume(e) ==
    /\ Serving
    /\ e \in inflight /\ e.route = R_CLIENTE
    /\ inflight' = inflight \ {e}
    /\ LET ev == [NoEvent EXCEPT !.kind = "response", !.route = R_CLIENTE,
                                 !.handlerRan = TRUE, !.id = e.id]
       IN \E threw \in BOOLEAN :
            last' = IF threw
                    THEN [ev EXCEPT !.status = 500, !.storeThrew = TRUE,
                                    !.details = DetailsInDev(TRUE)]
                    ELSE IF ClienteRowCount(e.id) = 0
                    THEN [ev EXCEPT !.status = 404]
                    ELSE [ev EXCEPT !.status = 200, !.rows = 1]
    /\ UNCHANGED <<serverFile, env, proc, now, revokedTokens, usuarios,
                   clientes, pagamentos, issued, loggedOut>>

\* clientes.whatsapp is unique: the INSERT rejects with err.code '23505'.
ClienteInsertCollides(w) == \E c \in clientes : c.whatsapp = w
NextClienteId == Cardinality(clientes) + 1

\* POST /clientes
NovoClienteArrive(h, w) ==
    GuardedArrive(R_NOVO_CLIENTE, h,
                  [NoEntry EXCEPT !.route = R_NOVO_CLIENTE, !.pc = "insert",
                                  !.whatsapp = w])

NovoClienteResume(e) ==
    /\ Serving
    /\ e \in inflight /\ e.route = R_NOVO_CLIENTE
    /\ inflight' = inflight \ {e}
    /\ LET ev == [NoEvent EXCEPT !.kind = "response", !.route = R_NOVO_CLIENTE,
                                 !.handlerRan = TRUE]
       IN \E threw \in BOOLEAN :
            IF threw
            THEN /\ last' = [ev EXCEPT !.status = 500, !.storeThrew = TRUE]
                 /\ UNCHANGED clientes
            ELSE IF ClienteInsertCollides(e.whatsapp)
            THEN /\ last' = [ev EXCEPT !.status = 400, !.collided = TRUE]
                 /\ UNCHANGED clientes
            ELSE /\ clientes' = clientes \cup
                      {[id |-> NextClienteId, whatsapp |-> e.whatsapp]}
                 /\ last' = [ev EXCEPT !.status = 201, !.id = NextClienteId]
    /\ UNCHANGED <<serverFile, env, proc, now, revokedTokens, usuarios,
                   pagamentos, issued, loggedOut>>

(* -------------------- GET /clientes/:id/pagamentos --------------------- *)
SqlBase == "SELECT * FROM pagamentos WHERE cliente_id = $"
SqlStatus == " AND status = $"
SqlYear == " AND EXTRACT(YEAR FROM data_vencimento) = $"
SqlMonth == " AND EXTRACT(MONTH FROM data_vencimento) = $"
SqlOrder == " ORDER BY data_vencimento DESC"

\* A piece of query text: sql, then the placeholder number ph (0: none),
\* then lit, a value written into the text itself ("" when none is).
Piece(sql, ph) == [sql |-> sql, ph |-> ph, lit |-> ""]
\* A bound parameter: the :id number or a query-string value.
NumParam(n) == [num |-> n, str |-> ""]
StrParam(v) == [num |-> 0, str |-> v]

\* if (v) { query += ` AND ... = $${paramIndex}`; params.push(v); paramIndex++ }
AddFilterInline(q, sql, v) ==
    IF FalsyStr(v) THEN q
    ELSE [text |-> Append(q.text, [sql |-> sql, ph |-> 0, lit |-> v]),
          params |-> q.params, paramIndex |-> q.paramIndex]
AddFilter(q, sql, v) ==
    IF FalsyStr(v) THEN q
    ELSE [text |-> Append(q.text, Piece(sql, q.paramIndex)),
          params |-> Append(q.params, StrParam(v)),
          paramIndex |-> q.paramIndex + 1]

\* The query and the params the handler hands to pool.query (the month
\* branch's missing paramIndex++ changes nothing: nothing reads it after).
BuildQuery(id, status, year, month) ==
    LET q0 == [text |-> <<Piece(SqlBase, 1)>>, params |-> <<NumParam(id)>>,
               paramIndex |-> 2]
        q1 == AddFilter(q0, SqlStatus, status)
        q2 == AddFilter(q1, SqlYear, year)
        q3 == AddFilter(q2, SqlMonth, month)
    IN [text |-> Append(q3.text, Piece(SqlOrder, 0)), params |-> q3.params]

\* The column a predicate piece compares, read off a row.
Column(row, sql) ==
    IF sql = SqlBase THEN NumParam(row.cliente_id)
    ELSE IF sql = SqlStatus THEN StrParam(row.status)
    ELSE IF sql = SqlYear THEN StrParam(row.year)
    ELSE StrParam(row.month)

\* The store's answer to a built query: the rows every predicate accepts.
RunQuery(q) ==
    {row \in pagamentos :
        \A i \in 1..Len(q.text) :
            q.text[i].ph > 0 => Column(row, q.text[i].sql) = q.params[q.text[i].ph]}

PagamentosArrive(h, id, status, year, month) ==
    GuardedArrive(R_PAGAMENTOS, h,
                  [NoEntry EXCEPT !.route = R_PAGAMENTOS, !.pc = "exists", !.id = id,
                                  !.fstatus = status, !.year = year, !.month = month])

\* 'SELECT 1 FROM clientes WHERE id = $1' returned (or rejected).
PagamentosExists(e) ==
    /\ Serving
    /\ e \in inflight /\ e.route = R_PAGAMENTOS /\ e.pc = "exists"
    /\ LET ev == [NoEvent EXCEPT !.kind = "response", !.route = R_PAGAMENTOS,
                                 !.handlerRan = TRUE, !.id = e.id,
                                 !.fstatus = e.fstatus, !.year = e.year,
                                 !.month = e.month]
       IN \E threw \in BOOLEAN :
            IF threw
            THEN /\ last' = [ev EXCEPT !.status = 500, !.storeThrew = TRUE,
                                       !.details = DetailsInDev(TRUE)]
                 /\ inflight' = inflight \ {e}
            ELSE IF ClienteRowCount(e.id) = 0
            THEN /\ last' = [ev EXCEPT !.status = 404]
                 /\ inflight' = inflight \ {e}
            ELSE /\ last' = NoEvent
                 /\ inflight' = (inflight \ {e}) \cup {[e EXCEPT !.pc = "list"]}
    /\ UNCHANGED <<serverFile, env, proc, now, revokedTokens, usuarios,
                   clientes, pagamentos, issued, loggedOut>>

\* The filtered query returned (or rejected).
PagamentosList(e) ==
    /\ Serving
    /\ e \in inflight /\ e.route = R_PAGAMENTOS /\ e.pc = "list"
    /\ inflight' = inflight \ {e}
    /\ LET ev == [NoEvent EXCEPT !.kind = "response", !.route = R_PAGAMENTOS,
                                 !.handlerRan = TRUE, !.id = e.id,
                                 !.fstatus = e.fstatus, !.year = e.year,
                                 !.month = e.month, !.existed = TRUE,
                                 !.listed = TRUE,
                                 !.query = BuildQuery(e.id, e.fstatus, e.year, e.month)]
           q == ev.query
       IN \E threw \in BOOLEAN :
            last' = IF threw
                    THEN [ev EXCEPT !.status = 500, !.storeThrew = TRUE,
                                    !.details = DetailsInDev(TRUE)]
                    ELSE [ev EXCEPT !.status = 200,
                                    !.rows = Cardinality(RunQuery(q))]
    /\ UNCHANGED <<serverFile, env, proc, now, revokedTokens, usuarios,
                   clientes, pagamentos, issued, loggedOut>>

(* --------------------------- POST /pagamentos -------------------------- *)
\* pagamentos.cliente_id references clientes: the INSERT rejects otherwise.
PagamentoForeignKeyFails(cid) == ~ \E c \in clientes : c.id = cid
NextPagamentoId == Cardinality(pagamentos) + 1
\* The status column's value in a new row.
NovoStatus == "pendente"

NovoPagamentoArrive(h, cid, v) ==
    /\ ~ \E row \in pagamentos : row.year = v.year /\ row.month = v.month
    /\ ~ \E e \in inflight : e.route = R_NOVO_PAGAMENTO
    /\ GuardedArrive(R_NOVO_PAGAMENTO, h,
                     [NoEntry EXCEPT !.route = R_NOVO_PAGAMENTO, !.pc = "insert",
                                     !.id = cid, !.year = v.year, !.month = v.month])

NovoPagamentoResume(e) ==
    /\ Serving
    /\ e \in inflight /\ e.route = R_NOVO_PAGAMENTO
    /\ inflight' = inflight \ {e}
    /\ LET ev == [NoEvent EXCEPT !.kind = "response", !.route = R_NOVO_PAGAMENTO,
                                 !.handlerRan = TRUE, !.id = e.id]
       IN \E threw \in BOOLEAN :
            IF threw \/ PagamentoForeignKeyFails(e.id)
            THEN /\ last' = [ev EXCEPT !.status = 500, !.storeThrew = TRUE]
                 /\ UNCHANGED pagamentos
            ELSE /\ pagamentos' = pagamentos \cup
                      {[id |-> NextPagamentoId, cliente_id |-> e.id,
                        status |-> NovoStatus, year |-> e.year, month |-> e.month]}
                 /\ last' = [ev EXCEPT !.status = 201]
    /\ UNCHANGED <<serverFile, env, proc, now, revokedTokens, usuarios,
                   clientes, issued, loggedOut>>

(* --------------------------- specifications ---------------------------- *)
\* The state two signups leave: ana and bia hold accounts.
TwoUsers ==
    {[id |-> 1, username |-> "ana", password_hash |-> BcryptHash("p1")],
     [id |-> 2, username |-> "bia", password_hash |-> BcryptHash("p2")]}

\* Sessions: logins, logouts, the clock and the guard in front of every
\* protected route (the first server file, which has them all).
Init ==
    /\ serverFile = 1
    /\ env = [JWT_SECRET |-> "s3cr3t", NODE_ENV |-> "production"]
    /\ proc = "running"
    /\ now = 0
    /\ revokedTokens = {}
    /\ usuarios = TwoUsers
    /\ clientes = {}
    /\ pagamentos = {}
    /\ inflight = {}
    /\ last = NoEvent
    /\ issued = {}
    /\ loggedOut = {}

Next ==
    \/ EndTurn
    \/ Tick
    \/ \E u \in Usernames, p \in Passwords : LoginArrive(u, p)
    \/ \E e \in inflight : LoginResume(e)
    \/ \E h \in BearerHeaders : Logout(h)
    \/ \E h \in BearerHeaders : ClientesArrive(h)
    \/ \E e \in inflight : ClientesResume(e)
    \/ \E h \in BearerHeaders : ClienteArrive(h, 1)
    \/ \E e \in inflight : ClienteResume(e)
    \/ \E h \in BearerHeaders, w \in Whatsapps : NovoClienteArrive(h, w)
    \/ \E e \in inflight : NovoClienteResume(e)
    \/ \E h \in BearerHeaders : PagamentosArrive(h, 1, Absent, Absent, Absent)
    \/ \E e \in inflight : PagamentosExists(e)
    \/ \E e \in inflight : PagamentosList(e)
    \/ \E h \in BearerHeaders, v \in Vencimentos : NovoPagamentoArrive(h, 1, v)
    \/ \E e \in inflight : NovoPagamentoResume(e)

Spec == Init /\ [][Next]_vars

\* Resources: the protected routes with every payload, under one session
\* (ana logged in at time 0).
AnaJwt == JwtSign(1, "s3cr3t", 0)

InitResources ==
    /\ serverFile \in {1, 2}
    /\ env \in [JWT_SECRET : {"s3cr3t"}, NODE_ENV : Environments]
    /\ proc = "running"
    /\ now = 0
    /\ revokedTokens = {}
    /\ usuarios = TwoUsers
    /\ clientes = {}
    /\ pagamentos = {}
    /\ inflight = {}
    /\ last = NoEvent
    /\ issued = {[jwt |-> AnaJwt, uid |-> 1]}
    /\ loggedOut = {}

NextResources ==
    \/ EndTurn
    \/ GetRoot
    \/ \E h \in Headers : ClientesArrive(h)
    \/ \E e \in inflight : ClientesResume(e)
    \/ \E h \in Headers, id \in IdInputs : ClienteArrive(h, id)
    \/ \E e \in inflight : ClienteResume(e)
    \/ \E h \in Headers, w \in Whatsapps : NovoClienteArrive(h, w)
    \/ \E e \in inflight : NovoClienteResume(e)
    \/ \E h \in Headers, id \in IdInputs, st \in StatusInputs,
          y \in YearInputs, m \in MonthInputs : PagamentosArrive(h, id, st, y, m)
    \/ \E e \in inflight : PagamentosExists(e)
    \/ \E e \in inflight : PagamentosList(e)
    \/ \E h \in Headers, cid \in IdInputs, v \in Vencimentos :
          NovoPagamentoArrive(h, cid, v)
    \/ \E e \in inflight : NovoPagamentoResume(e)

SpecResources == InitResources /\ [][NextResources]_vars

\* Accounts: the public routes, from an empty store, under every
\* configuration.
InitAccounts ==
    /\ serverFile \in {1, 2}
    /\ env \in [JWT_SECRET : Secrets, NODE_ENV : Environments]
    /\ proc = "checking"
    /\ now = 0
    /\ revokedTokens = {}
    /\ usuarios = {}
    /\ clientes = {}
    /\ pagamentos = {}
    /\ inflight = {}
    /\ last = NoEvent
    /\ issued = {}
    /\ loggedOut = {}

NextAccounts ==
    \/ EndTurn
    \/ StartupOk
    \/ StartupFail
    \/ GetRoot
    \/ \E u \in Usernames, p \in Passwords : SignupArrive(u, p)
    \/ \E e \in inflight : SignupCheck(e)
    \/ \E e \in inflight : SignupInsert(e)
    \/ \E u \in UsernameInputs, p \in PasswordInputs : LoginArrive(u, p)
    \/ \E e \in inflight : LoginResume(e)

SpecAccounts == InitAccounts /\ [][NextAccounts]_vars

\* The query builder alone: a listing request that passed the guard and the
\* existence check, with every filter combination, about to build its query.
InitQuery ==
    /\ serverFile \in {1, 2}
    /\ env = [JWT_SECRET |-> "s3cr3t", NODE_ENV |-> "production"]
    /\ proc = "running"
    /\ now = 0
    /\ revokedTokens = {}
    /\ usuarios = TwoUsers
    /\ clientes = {[id |-> 1, whatsapp |-> 5511]}
    /\ pagamentos = {[id |-> 1, cliente_id |-> 1, status |-> NovoStatus,
                      year |-> "2024", month |-> "5"]}
    /\ \E st \in StatusValues, y \in YearValues, m \in MonthValues :
         inflight = {[NoEntry EXCEPT !.route = R_PAGAMENTOS, !.pc = "list", !.id = 1,
                                     !.fstatus = st, !.year = y, !.month = m]}
    /\ last = NoEvent
    /\ issued = {[jwt |-> AnaJwt, uid |-> 1]}
    /\ loggedOut = {}

NextQuery ==
    \/ EndTurn
    \/ \E e \in inflight : PagamentosList(e)

SpecQuery == InitQuery /\ [][NextQuery]_vars

(* ------------------------------- claims -------------------------------- *)
\* The event is a response sent by a route handler (not by the guard).
HandlerResponse(r) == last.kind = "response" /\ last.route = r /\ ~last.guarded
\* The credentials of the event's request are those of a stored account.
CredentialsOnFile ==
    \E row \in usuarios : /\ row.username = last.username
                          /\ row.password_hash = BcryptHash(last.password)

\* C1: once POST /logout has answered 200 for a token, every later request
\* that carries the token to a protected route is answered 403 by the guard
\* and its handler does not run, whatever happened in between and although
\* the token still verifies.
C1_RevokedTokenRejected ==
    (last.guarded /\ last.route \in ProtectedRoutes /\ last.wasRevoked)
        => (last.status = 403 /\ ~last.handlerRan /\ last.kind = "response")

\* C1 witness: a logged-out token that is still validly signed and unexpired
\* is presented to GET /clientes and rejected, after another login happened.
C1_Witness ==
    /\ last.guarded /\ last.route = R_CLIENTES /\ last.wasRevoked
    /\ last.status = 403
    /\ last.header[2].str = "jwt" /\ last.header[2].jwt.sig = env.JWT_SECRET
    /\ now < last.header[2].jwt.exp
    /\ Cardinality(issued) > 1

\* The header has the form Bearer <token>.
IsBearerForm(h) == Len(h) = 2 /\ h[1] = Word("Bearer") /\ h[2] # Word("")

\* C4: the guard lets a request through only if its Authorization header is
\* present and of the form Bearer <token>; any other header is answered 401
\* and the handler does not run.
C4_OnlyBearerFormPasses ==
    last.guarded =>
        /\ last.handlerRan => IsBearerForm(last.header)
        /\ ~IsBearerForm(last.header) => (last.status = 401 /\ ~last.handlerRan)

\* C9: a token a login returned for user u, presented as Bearer and not
\* revoked, passes the guard before its expiry with req.user = u; from its
\* expiry on it is answered 403 and the handler does not run.
C9_TokenValidUntilExpiry ==
    \A e \in issued :
        (last.guarded /\ last.header = <<Word("Bearer"), TokWord(e.jwt)>>) =>
            /\ (now < e.jwt.exp /\ ~last.wasRevoked)
                   => (last.handlerRan /\ last.user = e.uid)
            /\ now >= e.jwt.exp
                   => (last.status = 403 /\ ~last.handlerRan)

\* C9 witness: bia's token passes the guard with her id attached.
C9_Witness ==
    \E e \in issued :
        /\ last.guarded /\ last.header = <<Word("Bearer"), TokWord(e.jwt)>>
        /\ now < e.jwt.exp /\ last.handlerRan /\ last.user = 2 /\ e.uid = 2

\* C9, the expiry side: a token is presented at its expiry and answered 403.
C9_ExpiredWitness ==
    \E e \in issued :
        /\ last.guarded /\ last.header = <<Word("Bearer"), TokWord(e.jwt)>>
        /\ ~last.wasRevoked /\ now >= e.jwt.exp /\ last.status = 403

C2_CollisionIsConflict ==
    (last.kind = "response" /\ last.collided) => last.status = 400

\* C3 as stated: a login with an unknown username or a wrong password is
\* answered 401 and carries no token.
C3_BadLoginIs401 ==
    (HandlerResponse(R_LOGIN) /\ ~CredentialsOnFile)
        => (last.status = 401 /\ last.token = Undefined)

\* C3 amended: such a login never carries a token; it is answered 401 when
\* both fields are non-empty and the user lookup does not reject, 400 in the
\* first server file when a field is empty, 500 when the lookup rejects.
C3_BadLoginNoToken ==
    (HandlerResponse(R_LOGIN) /\ ~CredentialsOnFile) =>
        /\ last.token = Undefined
        /\ last.status \in {400, 401, 500}
        /\ last.storeThrew => last.status = 500
        /\ (~last.storeThrew /\ last.username # "" /\ last.password # "")
               => last.status = 401
        /\ (serverFile = 1 /\ (last.username = "" \/ last.password = ""))
               => last.status = 400

\* C3 witness: a wrong password for an existing account answered 401.
C3_Witness ==
    /\ HandlerResponse(R_LOGIN) /\ ~CredentialsOnFile
    /\ last.status = 401 /\ last.token = Undefined
    /\ \E row \in usuarios : row.username = last.username

\* C5: a signup whose username the existence check did not find is answered
\* 201, and a login with the credentials of a stored account is answered 200
\* with a token when the signing secret is configured (the store answering
\* its queries).
C5_SignupThenLogin ==
    /\ (HandlerResponse(R_SIGNUP) /\ last.absentAtCheck /\ ~last.storeThrew)
           => last.status = 201
    /\ (HandlerResponse(R_LOGIN) /\ CredentialsOnFile /\ ~last.storeThrew
           /\ env.JWT_SECRET # NoSecret)
           => (last.status = 200 /\ last.token # Undefined)

C8_NoDetailsOutsideDevelopment ==
    (last.kind = "response" /\ last.status = 500 /\ env.NODE_ENV # "development")
        => ~last.details

\* The filters of the event's request, in the order status, year, month.
RequestFilters ==
    <<[sql |-> SqlStatus, v |-> last.fstatus], [sql |-> SqlYear, v |-> last.year],
      [sql |-> SqlMonth, v |-> last.month]>>
InRequest(f) == f.v # Absent
HasValue(f) == f.v # Absent /\ f.v # ""
\* The base predicate, one AND-predicate per filter of fs numbered from $2,
\* the ordering; and the parameter list that goes with it.
TextFor(fs) ==
    <<Piece(SqlBase, 1)>> \o [i \in 1..Len(fs) |-> Piece(fs[i].sql, i + 1)]
                          \o <<Piece(SqlOrder, 0)>>
ParamsFor(fs) == <<NumParam(last.id)>> \o [i \in 1..Len(fs) |-> StrParam(fs[i].v)]
\* Placeholders and parameters agree, and no value is written into the text.
WellBound(q) ==
    /\ Cardinality({i \in 1..Len(q.text) : q.text[i].ph > 0}) = Len(q.params)
    /\ \A i \in 1..Len(q.text) : q.text[i].lit = ""

\* C10 as stated: the query has one AND-predicate per filter present in the
\* request, in the order status, year, month, numbered $2, $3, ..., and the
\* parameters are the id and the present filters' values in that order.
C10_PredicatePerPresentFilter ==
    (HandlerResponse(R_PAGAMENTOS) /\ last.listed) =>
        /\ last.query.text = TextFor(SelectSeq(RequestFilters, InRequest))
        /\ last.query.params = ParamsFor(SelectSeq(RequestFilters, InRequest))
        /\ WellBound(last.query)

\* C10 amended: the same, for the filters present with a non-empty value (an
\* empty ?status= adds no predicate).
C10_PredicatePerNonEmptyFilter ==
    (HandlerResponse(R_PAGAMENTOS) /\ last.listed) =>
        /\ last.query.text = TextFor(SelectSeq(RequestFilters, HasValue))
        /\ last.query.params = ParamsFor(SelectSeq(RequestFilters, HasValue))
        /\ WellBound(last.query)

\* C10 witness: a request with year and month but an empty status was built
\* with $2 for the year and $3 for the month.
C10_Witness ==
    /\ HandlerResponse(R_PAGAMENTOS) /\ last.listed
    /\ last.fstatus = "" /\ last.year = "2024" /\ last.month = "5"
    /\ Len(last.query.params) = 3
    /\ last.query.text[3] = Piece(SqlMonth, 3)

====
